---- MODULE Spec2Model ----
(***************************************************************************)
(* Model of the sourcing tool's authenticated request pipeline             *)
(* (src/app.py): the LWA token fetch, the STS role assumption, the cached  *)
(* auth bundle, the SigV4-signed request, the per-endpoint wrappers, and   *)
(* the bulk sourcing loop that calls analyze_product once per row.         *)
(*                                                                         *)
(* Time is in seconds.  The three Streamlit caches are modelled by what    *)
(* they do: st.cache_data(ttl=3300) keeps a returned value for 3300 s,     *)
(* st.cache_resource keeps a returned value for the life of the process,   *)
(* and neither stores anything when the wrapped function raises.           *)
(***************************************************************************)
EXTENDS Integers, Sequences, FiniteSets, TLC

VARIABLES
    SELLER_ID,  \* whether the optional SELLER_ID secret is set
    now,        \* wall clock, seconds
    lwaCache,   \* st.cache_data entry of get_lwa_access_token
    tempCache,  \* st.cache_data entry of assume_role_temp_creds
    bundle,     \* st.cache_resource entry of spapi_auth_bundle
    sessionLog, \* RoleSessionName of every sts.assume_role performed
    ncalls,     \* number of API calls started
    pc,         \* position of the API call in progress
    call,       \* the API call in progress (or the last one finished)
    bpc,        \* position of the bulk sourcing run
    dfLen,      \* number of rows of the uploaded sheet
    max_rows,   \* the "Max rows to process" input
    id_col,     \* whether detect_column found an identifier column
    work,       \* number of rows of `work` (df.head(max_rows))
    idx,        \* loop index i of the bulk loop
    profit_min, \* the "Minimum Profit" input
    results,    \* the four lists of the bulk run
    buy,
    ungate,
    eliminated

apiVars  == <<now, lwaCache, tempCache, bundle, sessionLog, ncalls, pc, call>>
bulkVars == <<bpc, dfLen, max_rows, id_col, work, idx, profit_min,
              results, buy, ungate, eliminated>>
vars     == <<SELLER_ID, now, lwaCache, tempCache, bundle, sessionLog, ncalls,
              pc, call, bpc, dfLen, max_rows, id_col, work, idx, profit_min,
              results, buy, ungate, eliminated>>

----------------------------------------------------------------------------
(* Bounds of the model *)

MaxNow    == 7200   \* the clock stops advancing here
MaxCalls  == 3      \* API calls started in one behaviour

(* Program constant: ttl of the two st.cache_data decorators *)
CACHE_TTL == 3300

(* Steps by which the clock advances between calls *)
TickSteps == {1800, 3300}

(* Lifetime the two services give what they issue: an LWA access token and *)
(* an STS session without DurationSeconds both last one hour.  The code    *)
(* reads neither expires_in nor Credentials.Expiration.                    *)
Lifetimes == {3600}

----------------------------------------------------------------------------
(* Environment: what the three remote services can answer *)

\* token endpoint: status and what the body holds
TokenResponses ==
    [status : {200, 400, 500}, body : {"with_token", "no_token", "not_json"}]

\* marketplace transport: a stub fixes the status it answers to each attempt
Stubs == {"ok", "always500", "first503", "always403", "always429"}

StubAnswer(stub, attempt) ==
    CASE stub = "ok"        -> 200
      [] stub = "always500" -> 500
      [] stub = "first503"  -> IF attempt = 1 THEN 503 ELSE 200
      [] stub = "always403" -> 403
      [] stub = "always429" -> 429

\* marketplace response bodies: the text and what r.json() makes of it
NotJson == "<<not json>>"
Bodies ==
    { [text |-> "",             json |-> NotJson],
      [text |-> "{\"a\":1}",    json |-> "obj:a=1"],
      [text |-> "[1]",          json |-> "list:1"],
      [text |-> "<html>",       json |-> NotJson] }

\* the five endpoint wrappers
Kinds == {"catalog_item", "catalog_search", "pricing_offers", "fees_estimate",
          "listings_restrictions"}

----------------------------------------------------------------------------
(* Pure helpers *)

NoEntry == [has |-> FALSE, at |-> 0, exp |-> 0]
NoBundle == [has |-> FALSE, lwaExp |-> 0, tempExp |-> 0]
NoErr == [kind |-> "none", hasStatus |-> FALSE, status |-> 0]
NoResp == [status |-> 0, body |-> "none"]

\* st.cache_data(ttl=3300): a stored value is served while younger than ttl
CacheValid(entry, t) == entry.has /\ t - entry.at < CACHE_TTL

\* get_lwa_access_token body: what one POST to the token endpoint yields
LwaResult(resp) ==
    IF resp.status # 200
    THEN [ok |-> FALSE,
          err |-> [kind |-> "RuntimeError", hasStatus |-> TRUE, status |-> resp.status]]
    ELSE IF resp.body = "not_json"
    THEN [ok |-> FALSE,
          err |-> [kind |-> "JSONDecodeError", hasStatus |-> FALSE, status |-> 0]]
    ELSE IF resp.body = "no_token"
    THEN [ok |-> FALSE,
          err |-> [kind |-> "KeyError", hasStatus |-> FALSE, status |-> 0]]
    ELSE [ok |-> TRUE, err |-> NoErr]

\* assume_role_temp_creds: the RoleSessionName of the n-th exchange made at time t
RoleSessionName(t, n) == "hf-spapi-session"

\* Payload without the `if r.text` guard: an empty body goes to r.json(), fails
\* to parse and comes back wrapped as raw text
Payload_NoEmptyGuard(body) ==
    IF body.json # NotJson THEN [kind |-> "json", value |-> body.json]
    ELSE [kind |-> "raw", value |-> body.text]

\* spapi_request lines 113-116: the payload made of a response body
Payload(body) ==
    IF body.text = "" THEN [kind |-> "json", value |-> "obj:empty"]
    ELSE IF body.json # NotJson THEN [kind |-> "json", value |-> body.json]
    ELSE [kind |-> "raw", value |-> body.text]

NoPayload == [kind |-> "none", value |-> ""]
NoBody == [text |-> "", json |-> NotJson]

\* WrapperOutcome with the test written `status >= 500`: a 4xx passes as a result
WrapperOutcome_Only5xx(kind, status) ==
    IF status >= 500
    THEN IF kind = "listings_restrictions" THEN "none" ELSE "raised"
    ELSE "returned"

\* the wrappers' status test: catalog_item_by_asin & co raise on status >= 400,
\* listings_restrictions returns None instead
WrapperOutcome(kind, status) ==
    IF status >= 400
    THEN IF kind = "listings_restrictions" THEN "none" ELSE "raised"
    ELSE "returned"

\* StepAfter with the credentials step skipped: the request is signed as soon as
\* the token is there
StepAfter_SkipSts(p, ok) ==
    CASE p = "bundle" -> IF ok THEN "sign" ELSE "lwa"
      [] p = "lwa"    -> IF ok THEN "sign" ELSE "done"
      [] p = "sts"    -> IF ok THEN "sign" ELSE "done"
      [] p = "sign"   -> "send"
      [] p = "send"   -> "wrap"
      [] p = "wrap"   -> "done"

\* StepAfter with a failed token fetch or exchange swallowed: the call goes on
\* to sign and send
StepAfter_SwallowAuthError(p, ok) ==
    CASE p = "bundle" -> IF ok THEN "sign" ELSE "lwa"
      [] p = "lwa"    -> IF ok THEN "sts" ELSE "sign"
      [] p = "sts"    -> IF ok THEN "sign" ELSE "sign"
      [] p = "sign"   -> "send"
      [] p = "send"   -> "wrap"
      [] p = "wrap"   -> "done"

\* Control flow of one wrapper call: spapi_auth_bundle (cache lookup, then the
\* token, then the credentials), then spapi_request (sign, send), then the
\* wrapper's status test.  ok is the outcome of the step at p.
StepAfter(p, ok) ==
    CASE p = "bundle" -> IF ok THEN "sign" ELSE "lwa"
      [] p = "lwa"    -> IF ok THEN "sts" ELSE "done"
      [] p = "sts"    -> IF ok THEN "sign" ELSE "done"
      [] p = "sign"   -> "send"
      [] p = "send"   -> "wrap"
      [] p = "wrap"   -> "done"

NewCall(kind, stub, t) ==
    [kind |-> kind, stub |-> stub,
     staleLwa  |-> IF bundle.has THEN bundle.lwaExp < t
                   ELSE lwaCache.has /\ lwaCache.exp < t,
     staleTemp |-> IF bundle.has THEN bundle.tempExp < t
                   ELSE tempCache.has /\ tempCache.exp < t,
     haveLwa |-> FALSE, haveTemp |-> FALSE, lwaExp |-> 0, tempExp |-> 0,
     fetches |-> 0, exchanges |-> 0, signed |-> FALSE,
     sends |-> 0, status |-> 0, body |-> NoBody, payload |-> NoPayload,
     tokenResp |-> NoResp, err |-> NoErr, outcome |-> "pending"]

IdleCall == [kind |-> "none", stub |-> "none",
     staleLwa |-> FALSE, staleTemp |-> FALSE,
     haveLwa |-> FALSE, haveTemp |-> FALSE, lwaExp |-> 0, tempExp |-> 0,
     fetches |-> 0, exchanges |-> 0, signed |-> FALSE,
     sends |-> 0, status |-> 0, body |-> NoBody, payload |-> NoPayload,
     tokenResp |-> NoResp, err |-> NoErr, outcome |-> "pending"]

----------------------------------------------------------------------------
(* Initial state: process start, nothing cached, no bulk run *)

Init ==
    /\ SELLER_ID \in BOOLEAN
    /\ now = 0
    /\ lwaCache = NoEntry
    /\ tempCache = NoEntry
    /\ bundle = NoBundle
    /\ sessionLog = <<>>
    /\ ncalls = 0
    /\ pc = "idle"
    /\ call = IdleCall
    /\ bpc = "idle"
    /\ dfLen = 0
    /\ max_rows = 1
    /\ id_col = FALSE
    /\ work = 0
    /\ idx = 0
    /\ profit_min = 0
    /\ results = <<>>
    /\ buy = <<>>
    /\ ungate = <<>>
    /\ eliminated = <<>>

----------------------------------------------------------------------------
(* The API call pipeline *)

\* time passes between calls
Tick ==
    /\ pc = "idle"
    /\ \E dt \in TickSteps :
          /\ now + dt <= MaxNow
          /\ now' = now + dt
    /\ UNCHANGED <<lwaCache, tempCache, bundle, sessionLog, ncalls, pc, call>>
    /\ UNCHANGED <<SELLER_ID, bulkVars>>

\* a wrapper (catalog_item_by_asin, ...) is entered
StartCall ==
    /\ pc = "idle"
    /\ ncalls < MaxCalls
    /\ \E kind \in Kinds, stub \in Stubs :
          \* listings_restrictions returns None before any call without SELLER_ID
          /\ kind = "listings_restrictions" => SELLER_ID
          /\ call' = NewCall(kind, stub, now)
    /\ ncalls' = ncalls + 1
    /\ pc' = "bundle"
    /\ UNCHANGED <<now, lwaCache, tempCache, bundle, sessionLog>>
    /\ UNCHANGED <<SELLER_ID, bulkVars>>

\* spapi_auth_bundle(): st.cache_resource serves the stored bundle if any
AuthBundle ==
    /\ pc = "bundle"
    /\ IF bundle.has
       THEN call' = [call EXCEPT !.haveLwa = TRUE, !.haveTemp = TRUE,
                                 !.lwaExp = bundle.lwaExp,
                                 !.tempExp = bundle.tempExp]
       ELSE call' = call
    /\ pc' = StepAfter("bundle", bundle.has)
    /\ UNCHANGED <<now, lwaCache, tempCache, bundle, sessionLog, ncalls>>
    /\ UNCHANGED <<SELLER_ID, bulkVars>>

\* get_lwa_access_token(...) behind st.cache_data(ttl=3300)
GetLwa ==
    /\ pc = "lwa"
    /\ IF CacheValid(lwaCache, now)
       THEN /\ call' = [call EXCEPT !.haveLwa = TRUE, !.lwaExp = lwaCache.exp]
            /\ pc' = StepAfter("lwa", TRUE)
            /\ UNCHANGED lwaCache
       ELSE \E resp \in TokenResponses, life \in Lifetimes :
              LET r == LwaResult(resp) IN
              /\ pc' = StepAfter("lwa", r.ok)
              /\ IF r.ok
                 THEN /\ lwaCache' = [has |-> TRUE, at |-> now, exp |-> now + life]
                      /\ call' = [call EXCEPT !.haveLwa = TRUE,
                                              !.lwaExp = now + life,
                                              !.fetches = @ + 1]
                 ELSE /\ UNCHANGED lwaCache
                      /\ call' = [call EXCEPT !.fetches = @ + 1,
                                              !.tokenResp = resp,
                                              !.err = r.err,
                                              !.outcome = "raised"]
    /\ UNCHANGED <<now, tempCache, bundle, sessionLog, ncalls>>
    /\ UNCHANGED <<SELLER_ID, bulkVars>>

\* assume_role_temp_creds(...) behind st.cache_data(ttl=3300), then the return
\* of spapi_auth_bundle, whose value st.cache_resource stores
AssumeRole ==
    /\ pc = "sts"
    /\ IF CacheValid(tempCache, now)
       THEN /\ call' = [call EXCEPT !.haveTemp = TRUE, !.tempExp = tempCache.exp]
            /\ bundle' = [has |-> TRUE, lwaExp |-> call.lwaExp,
                          tempExp |-> tempCache.exp]
            /\ pc' = StepAfter("sts", TRUE)
            /\ UNCHANGED <<tempCache, sessionLog>>
       ELSE \E ok \in BOOLEAN, life \in Lifetimes :
              /\ sessionLog' = Append(sessionLog,
                                      RoleSessionName(now, Len(sessionLog) + 1))
              /\ pc' = StepAfter("sts", ok)
              /\ IF ok
                 THEN /\ tempCache' = [has |-> TRUE, at |-> now, exp |-> now + life]
                      /\ bundle' = [has |-> TRUE, lwaExp |-> call.lwaExp,
                                    tempExp |-> now + life]
                      /\ call' = [call EXCEPT !.haveTemp = TRUE,
                                              !.tempExp = now + life,
                                              !.exchanges = @ + 1]
                 ELSE /\ UNCHANGED <<tempCache, bundle>>
                      /\ call' = [call EXCEPT !.exchanges = @ + 1,
                                              !.err = [kind |-> "ClientError",
                                                       hasStatus |-> FALSE,
                                                       status |-> 0],
                                              !.outcome = "raised"]
    /\ UNCHANGED <<now, lwaCache, ncalls>>
    /\ UNCHANGED <<SELLER_ID, bulkVars>>

\* spapi_request lines 94-107: build the request and SigV4-sign it
Sign ==
    /\ pc = "sign"
    /\ call' = [call EXCEPT !.signed = TRUE]
    /\ pc' = StepAfter("sign", TRUE)
    /\ UNCHANGED <<now, lwaCache, tempCache, bundle, sessionLog, ncalls>>
    /\ UNCHANGED <<SELLER_ID, bulkVars>>

\* spapi_request lines 109-118: send once, parse the body, return
Send ==
    /\ pc = "send"
    /\ \E body \in Bodies :
          call' = [call EXCEPT !.sends = @ + 1,
                               !.status = StubAnswer(call.stub, call.sends + 1),
                               !.body = body,
                               !.payload = Payload(body)]
    /\ pc' = StepAfter("send", TRUE)
    /\ UNCHANGED <<now, lwaCache, tempCache, bundle, sessionLog, ncalls>>
    /\ UNCHANGED <<SELLER_ID, bulkVars>>

\* the wrapper's `if status >= 400` after spapi_request returned
Wrap ==
    /\ pc = "wrap"
    /\ call' = [call EXCEPT !.outcome = WrapperOutcome(call.kind, call.status)]
    /\ pc' = StepAfter("wrap", TRUE)
    /\ UNCHANGED <<now, lwaCache, tempCache, bundle, sessionLog, ncalls>>
    /\ UNCHANGED <<SELLER_ID, bulkVars>>

\* the wrapper has returned or raised: control is back with its caller
Return ==
    /\ pc = "done"
    /\ pc' = "idle"
    /\ call' = IdleCall
    /\ UNCHANGED <<now, lwaCache, tempCache, bundle, sessionLog, ncalls>>
    /\ UNCHANGED <<SELLER_ID, bulkVars>>

Next ==
    \/ Tick
    \/ StartCall
    \/ AuthBundle
    \/ GetLwa
    \/ AssumeRole
    \/ Sign
    \/ Send
    \/ Wrap
    \/ Return

Spec == Init /\ [][Next]_vars

----------------------------------------------------------------------------
(* Properties of the API call pipeline *)

\* C1: no request is signed or sent with a token or credentials whose expiry
\* has passed; a call that starts with an expired cached value performs exactly
\* one fresh fetch / exchange before its request is sent.
C1_ExpiryRespected ==
    /\ call.signed => (call.lwaExp >= now /\ call.tempExp >= now)
    /\ (call.sends > 0 /\ call.staleLwa)  => call.fetches = 1
    /\ (call.sends > 0 /\ call.staleTemp) => call.exchanges = 1

\* maxRetries of the retry policy: "default 3-4"
MaxRetriesDefaults == {3, 4}

\* C2: against a transport that answers 500 to every attempt, a call makes
\* exactly maxRetries send attempts and then fails.
C2_RetryBound ==
    (pc = "done" /\ call.stub = "always500" /\ call.err = NoErr)
        => (call.sends \in MaxRetriesDefaults /\ call.outcome \in {"raised", "none"})

\* C3: against a transport that answers 503 to the first attempt and 200 to the
\* second, a call sends a second attempt and returns the 200 result.
C3_TransientThenSuccess ==
    (pc = "done" /\ call.stub = "first503" /\ call.err = NoErr)
        => (call.sends = 2 /\ call.status = 200 /\ call.outcome = "returned")

Terminal4xx == (400..499) \ {429}

\* C4: a 4xx answer other than 429 ends the call in failure after that single
\* send; there is no second attempt.
C4_NoRetryOnTerminal4xx ==
    /\ call.status \in Terminal4xx => call.sends = 1
    /\ (pc = "done" /\ call.status \in Terminal4xx)
          => call.outcome \in {"raised", "none"}

C4_Witness ==
    pc = "done" /\ call.status = 403 /\ call.sends = 1 /\ call.outcome = "raised"

\* C5: within a call the order is: token and temporary credentials obtained,
\* then the request signed, then the request sent.
C5_AuthSignSendOrder ==
    /\ (pc = "sign" \/ call.signed) => (call.haveLwa /\ call.haveTemp)
    /\ (pc \in {"send", "wrap"} \/ call.sends > 0) => call.signed
    /\ pc \in {"bundle", "lwa", "sts", "sign"} => call.sends = 0
    /\ pc \in {"bundle", "lwa", "sts"} => ~call.signed

C5_Witness ==
    /\ pc = "done" /\ call.sends = 1 /\ call.signed
    /\ call.fetches = 1 /\ call.exchanges = 1

\* C7: a failed token fetch or credential exchange ends the call at once: the
\* failed step is not made a second time in that call and nothing is signed or
\* sent.
C7_AuthFailurePropagates ==
    call.err # NoErr =>
        /\ pc = "done"
        /\ call.outcome = "raised"
        /\ ~call.signed
        /\ call.sends = 0
        /\ call.fetches <= 1
        /\ call.exchanges <= 1
        /\ call.fetches + call.exchanges >= 1
        /\ (~call.haveLwa => call.exchanges = 0)

C7_Witness ==
    pc = "done" /\ call.err.kind = "RuntimeError" /\ call.fetches = 1 /\ ~call.haveLwa

\* C8: any two credential exchanges use different session names.
C8_SessionNamesUnique ==
    \A i, j \in 1..Len(sessionLog) : i # j => sessionLog[i] # sessionLog[j]

\* C9: the token fetch fails with one authentication-error kind that carries
\* the HTTP status code, both on a non-200 answer and on a 200 answer without
\* the access-token field; no token is returned or cached.
C9_TokenFailureKind ==
    (/\ call.fetches > 0
     /\ ~call.haveLwa
     /\ (call.tokenResp.status # 200 \/ call.tokenResp.body = "no_token")) =>
        /\ call.err.kind = "RuntimeError"
        /\ call.err.hasStatus
        /\ call.err.status = call.tokenResp.status
        /\ ~CacheValid(lwaCache, now)

\* C10 as stated: for a 2xx answer the request operation returns the body
\* parsed as JSON when it is JSON and otherwise the raw text wrapped in a
\* result, and does not raise.
C10_JsonElseRaw ==
    (call.sends > 0 /\ call.status \in 200..299) =>
        /\ call.payload = IF call.body.json # NotJson
                          THEN [kind |-> "json", value |-> call.body.json]
                          ELSE [kind |-> "raw", value |-> call.body.text]
        /\ pc = "done" => call.outcome = "returned"

\* C10 amended: an empty body is returned as the empty object; any other body
\* is returned parsed when it is JSON and wrapped as raw text when it is not.
C10_JsonElseRawUnlessEmpty ==
    (call.sends > 0 /\ call.status \in 200..299) =>
        /\ call.body.text = "" =>
              call.payload = [kind |-> "json", value |-> "obj:empty"]
        /\ (call.body.text # "" /\ call.body.json # NotJson) =>
              call.payload = [kind |-> "json", value |-> call.body.json]
        /\ (call.body.text # "" /\ call.body.json = NotJson) =>
              call.payload = [kind |-> "raw", value |-> call.body.text]
        /\ pc = "done" => call.outcome = "returned"

C10_Witness ==
    /\ pc = "done" /\ call.status = 200 /\ call.outcome = "returned"
    /\ call.body.text = "" /\ call.payload.kind = "json"

----------------------------------------------------------------------------
(* The analyzer and the bulk sourcing loop *)

MaxRows    == 2     \* rows of the uploaded sheet
MaxMaxRows == 3     \* largest "Max rows to process" tried

\* the "Minimum Profit ($) for BUY LIST" input; 3.0 is its default
ProfitMins == {3}

\* Python values: a number, None, or the float NaN
Num(n) == [t |-> "num", v |-> n]
None   == [t |-> "none", v |-> 0]
NaN    == [t |-> "nan", v |-> 0]

\* a - b on floats: NaN is contagious
FSub(a, b) == IF a.t = "nan" \/ b.t = "nan" THEN NaN ELSE Num(a.v - b.v)

\* a >= m on a float and a number: every comparison with NaN is False
FGe(a, m) == a.t = "num" /\ a.v >= m

\* a > m
FGt(a, m) == a.t = "num" /\ a.v > m

Min(a, b) == IF a <= b THEN a ELSE b

\* cells of the cost column: a number, an empty cell (pandas NaN), or text
CostCells == {Num(2), Num(6), NaN, [t |-> "bad", v |-> 0]}

\* cells of the identifier column, by what the identifier tests make of them:
\* "asin" is 10 alphanumerics with a letter, "upc" has 12 digits, "ean" has 13,
\* "ten" is 10 characters that fail is_asin, "junk" is anything else
IdCells == {"", "asin", "upc", "ean", "ten", "junk"}

is_asin(x) == x = "asin"
is_upc(x)  == x = "upc"
is_ean(x)  == x = "ean"

\* What the services answer during one analysis.  fail names the step that
\* fails (the token/credential bootstrap, or the endpoint answering >= 400);
\* items is the catalog search result; price and fees are what the offers and
\* fee payloads hold; restr is the answer of the restrictions endpoint.
Items == {"none", "noasin", "asin"}
Restrs == {"http_error", "empty", "not_eligible", "approval", "other"}
Worlds ==
    [fail : {"auth", "search", "catalog", "offers", "fees"}, items : Items,
     price : {Num(10)}, fees : {Num(3)}, restr : {"empty"}]
    \cup
    [fail : {"none"}, items : Items, price : {None, Num(0), Num(10)},
     fees : {None, Num(3)}, restr : Restrs]

\* restriction_status(asin), with listings_restrictions inlined
restriction_status(seller, w) ==
    IF ~seller \/ w.restr = "http_error" THEN "UNKNOWN"  \* payload is None
    ELSE IF w.restr = "empty" THEN "OK"
    ELSE IF w.restr = "not_eligible" THEN "RESTRICTED"
    ELSE "GATED"

Raised(msg) == [raised |-> TRUE, reason |-> msg,
                restriction_status |-> "", profit |-> None]

\* analyze_product from the catalog lookup on (asin known)
AnalyzeFromCatalog(cost, seller, w) ==
    IF w.fail = "auth" THEN Raised("LWA token error")
    ELSE IF w.fail = "catalog" THEN Raised("Catalog item error")
    ELSE IF w.fail = "offers" THEN Raised("Pricing offers error")
    ELSE IF FGt(w.price, 0) /\ w.fail = "fees" THEN Raised("Fees error")
    ELSE [raised |-> FALSE, reason |-> "",
          restriction_status |-> restriction_status(seller, w),
          profit |-> IF FGt(w.price, 0) /\ w.fees # None
                     THEN FSub(FSub(w.price, w.fees), cost)
                     ELSE None]

\* analyze_product(identifier, supplier_cost, case_pack)
analyze_product(identifier, cost, seller, w) ==
    IF identifier = "" THEN Raised("Empty identifier.")
    ELSE IF is_asin(identifier) THEN AnalyzeFromCatalog(cost, seller, w)
    ELSE IF is_upc(identifier) \/ is_ean(identifier)
    THEN IF w.fail = "auth" THEN Raised("LWA token error")
         ELSE IF w.fail = "search" THEN Raised("Catalog search error")
         ELSE IF w.items = "none" THEN Raised("No Amazon match found")
         ELSE IF w.items = "noasin" THEN Raised("Amazon match found but ASIN missing.")
         ELSE AnalyzeFromCatalog(cost, seller, w)
    ELSE IF identifier = "ten" THEN AnalyzeFromCatalog(cost, seller, w)
    ELSE Raised("Identifier not recognized as ASIN/UPC/EAN.")

\* the identifier the loop takes from a row
RowIdentifier(idc, cell) ==
    IF idc THEN cell
    ELSE IF is_asin(cell) \/ is_upc(cell) \/ is_ean(cell) THEN cell ELSE ""

\* the loop index after row i of n: every path of the body, `continue`
\* included, goes on to the next row
NextRow_BreakOnFailure(i, n, failed) == IF failed THEN n ELSE i + 1

NextRow(i, n, failed) == i + 1

Entry(i, reason, out) ==
    [row |-> i, reason |-> reason,
     restriction_status |-> out.restriction_status, profit |-> out.profit]

\* list.append(x) when cond holds
AppendIf(list, cond, x) == IF cond THEN Append(list, x) ELSE list

\* Destinations with the `continue` after the RESTRICTED append left out: a
\* restricted row falls through to the later tests as well
Destinations_NoContinue(out, pm) ==
    (IF out.restriction_status = "RESTRICTED" THEN {"restricted"} ELSE {})
    \cup
    (IF out.restriction_status = "GATED" THEN {"ungate"}
     ELSE IF out.profit # None /\ FGe(out.profit, pm) THEN {"buy"}
     ELSE {"unprofitable"})

\* Destinations with the buy test reduced to `profit is not None`
Destinations_NoThreshold(out, pm) ==
    IF out.restriction_status = "RESTRICTED" THEN {"restricted"}
    ELSE IF out.restriction_status = "GATED" THEN {"ungate"}
    ELSE IF out.profit # None THEN {"buy"}
    ELSE {"unprofitable"}

\* the classification at the end of the loop body: the lists an analysed row
\* is appended to
Destinations(out, pm) ==
    IF out.restriction_status = "RESTRICTED" THEN {"restricted"}
    ELSE IF out.restriction_status = "GATED" THEN {"ungate"}
    ELSE IF out.profit # None /\ FGe(out.profit, pm) THEN {"buy"}
    ELSE {"unprofitable"}

\* "Run Bulk Sourcing" is pressed on an uploaded sheet
RunBulk ==
    /\ bpc \in {"idle", "done"}
    /\ \E n \in 0..MaxRows, m \in 1..MaxMaxRows, idc \in BOOLEAN, pm \in ProfitMins :
          /\ dfLen' = n
          /\ max_rows' = m
          /\ id_col' = idc
          /\ profit_min' = pm
          /\ work' = Min(n, m)
    /\ idx' = 0
    /\ results' = <<>>
    /\ buy' = <<>>
    /\ ungate' = <<>>
    /\ eliminated' = <<>>
    /\ bpc' = "loop"
    /\ UNCHANGED <<SELLER_ID, apiVars>>

\* one iteration of `for i, row in work.iterrows()`
ProcessRow ==
    /\ bpc = "loop"
    /\ idx < work
    /\ \E cost \in CostCells :
         IF cost.t = "bad"
         THEN /\ eliminated' = Append(eliminated,
                                 Entry(idx, "Missing/invalid cost", Raised("")))
              /\ idx' = NextRow(idx, work, TRUE)
              /\ UNCHANGED <<results, buy, ungate>>
         ELSE \E cell \in IdCells :
           LET identifier == RowIdentifier(id_col, cell) IN
           IF identifier = ""
           THEN /\ eliminated' = Append(eliminated,
                                   Entry(idx, "No ASIN/UPC/EAN found", Raised("")))
                /\ idx' = NextRow(idx, work, TRUE)
                /\ UNCHANGED <<results, buy, ungate>>
           ELSE \E w \in Worlds :
             LET out  == analyze_product(identifier, cost, SELLER_ID, w)
                 base == Entry(idx, "", out)
             IN
             IF out.raised
             THEN /\ eliminated' = Append(eliminated, Entry(idx, out.reason, out))
                  /\ idx' = NextRow(idx, work, TRUE)
                  /\ UNCHANGED <<results, buy, ungate>>
             ELSE
               /\ results' = Append(results, base)
               /\ idx' = NextRow(idx, work, FALSE)
               /\ LET d == Destinations(out, profit_min)
                      e1 == AppendIf(eliminated, "restricted" \in d,
                                     Entry(idx, "RESTRICTED", out))
                  IN
                  /\ ungate' = AppendIf(ungate, "ungate" \in d, base)
                  /\ buy' = AppendIf(buy, "buy" \in d, base)
                  /\ eliminated' = AppendIf(e1, "unprofitable" \in d,
                         Entry(idx, "Not profitable or missing price/fees", out))
    /\ UNCHANGED <<bpc, dfLen, max_rows, id_col, work, profit_min>>
    /\ UNCHANGED <<SELLER_ID, apiVars>>

\* the loop is over: the three lists are shown
ShowResults ==
    /\ bpc = "loop"
    /\ idx >= work
    /\ bpc' = "done"
    /\ UNCHANGED <<dfLen, max_rows, id_col, work, idx, profit_min,
                   results, buy, ungate, eliminated>>
    /\ UNCHANGED <<SELLER_ID, apiVars>>

NextBulk ==
    \/ RunBulk
    \/ ProcessRow
    \/ ShowResults

SpecBulk == Init /\ [][NextBulk]_vars

\* rows recorded in a list
RowsOf(list) == {list[k].row : k \in 1..Len(list)}

\* rows whose handling failed: no analysis result was produced for them
FailedRows == {eliminated[k].row : k \in {j \in 1..Len(eliminated) :
                                            eliminated[j].restriction_status = ""}}

\* C6: a failure on one row is recorded for that row and the loop goes on:
\* when the run is over, every row of the selection (the first max_rows rows
\* of the sheet) has been processed and recorded.
C6_AllRowsProcessed ==
    /\ bpc = "loop" => idx <= work
    /\ bpc \in {"loop", "done"} =>
          /\ work = Min(dfLen, max_rows)
          /\ \A r \in 0..(idx - 1) :
                r \in RowsOf(buy) \cup RowsOf(ungate) \cup RowsOf(eliminated)
          /\ FailedRows \subseteq 0..(idx - 1)
    /\ bpc = "done" => idx = work

C6_Witness ==
    /\ bpc = "done" /\ work = 2
    /\ 0 \in FailedRows
    /\ \E k \in 1..Len(eliminated) :
          eliminated[k].row = 0 /\ eliminated[k].reason = "Catalog item error"
    /\ 1 \in RowsOf(buy)

\* C11: every entry of the buy list has a computed profit that is at least the
\* minimum-profit threshold, and a restriction status that is neither GATED
\* nor RESTRICTED.
C11_BuyListProfitableUngated ==
    \A k \in 1..Len(buy) :
        /\ buy[k].profit.t = "num"
        /\ buy[k].profit.v >= profit_min
        /\ buy[k].restriction_status \notin {"GATED", "RESTRICTED"}

C11_Witness ==
    /\ bpc = "done" /\ Len(buy) >= 1
    /\ \E k \in 1..Len(eliminated) :
          /\ eliminated[k].reason = "Not profitable or missing price/fees"
          /\ eliminated[k].profit.t = "num"

\* C12: every entry of the ungate list is gated and profitable: its status is
\* GATED and its profit is computed and at least the threshold.
C12_UngateListProfitable ==
    \A k \in 1..Len(ungate) :
        /\ ungate[k].restriction_status = "GATED"
        /\ ungate[k].profit.t = "num"
        /\ ungate[k].profit.v >= profit_min

\* C13: the analyzer reports the restriction status UNKNOWN only when
\* SELLER_ID is not set; with SELLER_ID set the status is OK, GATED or
\* RESTRICTED.
C13_UnknownOnlyWithoutSellerId ==
    \A k \in 1..Len(results) :
        /\ results[k].restriction_status = "UNKNOWN" => ~SELLER_ID
        /\ SELLER_ID => results[k].restriction_status \in {"OK", "GATED", "RESTRICTED"}

\* number of entries the three output lists hold for row r
Placements(r) ==
    Cardinality({k \in 1..Len(buy) : buy[k].row = r})
    + Cardinality({k \in 1..Len(ungate) : ungate[k].row = r})
    + Cardinality({k \in 1..Len(eliminated) : eliminated[k].row = r})

\* C14: every processed row is in exactly one of buy, ungate and eliminated,
\* and only the processed rows are.
C14_ExactlyOneList ==
    bpc \in {"loop", "done"} =>
        /\ \A r \in 0..(idx - 1) : Placements(r) = 1
        /\ Len(buy) + Len(ungate) + Len(eliminated) = idx

C14_Witness ==
    /\ bpc = "done" /\ idx = 2
    /\ Len(ungate) = 1
    /\ \E k \in 1..Len(eliminated) : eliminated[k].reason = "RESTRICTED"

====
